---------------------------- MODULE Spec2Model ----------------------------
(***************************************************************************)
(* Model of the multi-camera hand-reconstruction pipeline                  *)
(* (src/2.capture/process/main.py): FrameSource threads (cap_reading), the *)
(* Synchronizer (coupling_loop), the Worker Pool (processing_loop), one    *)
(* Reorderer (ordering_loop) and one Sink (display_loop) per camera, and   *)
(* main's shutdown sequence.                                               *)
(*                                                                         *)
(* The queue class (finalizable_queue / finalizable_thread_queue) and the  *)
(* slot class (wrapped) are imported by main.py but are not part of the    *)
(* sources at hand; they are modelled from their documented contract       *)
(* (operators Q* and the slot array lastFrame). The same holds for         *)
(* triangulate_lmcs.                                                       *)
(*                                                                         *)
(* Spec and FairSpec are the whole pipeline; QuitSpec is the pipeline with *)
(* the history of the quit key; CaptureSpec is the FrameSources and the    *)
(* Synchronizer with numbered frames; BundleSpec is the body of            *)
(* processing_loop for 2..MaxCams cameras; ReorderSpec is one Reorderer on *)
(* every arrival order; ReconSpec is the reconstruction script.            *)
(***************************************************************************)
EXTENDS Integers, Sequences, FiniteSets

-----------------------------------------------------------------------------
(* Bounds of the model *)

\* number of worker threads (--division)
NumWorkers == 2
\* the Synchronizer stops emitting after this many bundles
MaxBundles == 2

(* Program constants *)

\* main() refuses to run with fewer than two cameras
NumCams == 2
\* MediaPipe Hands has 21 landmarks
num_landmarks == 21

Cams == 1..NumCams
Workers == 1..NumWorkers
Indices == 0..(MaxBundles - 1)

-----------------------------------------------------------------------------
(* FinalizableQueue: concurrent enqueue, a blocking dequeue that waits     *)
(* until data is available or the queue is finalized, and a finalize       *)
(* operation distinct from emptiness.                                      *)

QNew == [items |-> <<>>, finalized |-> FALSE]
QPut(q, x) == [q EXCEPT !.items = Append(@, x)]
QHasItem(q) == Len(q.items) > 0
QHead(q) == Head(q.items)
QPop(q) == [q EXCEPT !.items = Tail(@)]
QEmptyFinalized(q) == q.finalized /\ Len(q.items) = 0
QFinalize(q) == [q EXCEPT !.finalized = TRUE]

-----------------------------------------------------------------------------
VARIABLES
    capPc,       \* per camera: position of cap_reading
    lastFrame,   \* per camera: the single-slot cell, None or a frame
    stop,        \* cams_stop_event
    cplPc,       \* position of coupling_loop
    cplI,        \* coupling_loop: next slot to read in the current cycle
    cplFrames,   \* coupling_loop: frames collected in the current cycle
    index,       \* coupling_loop: next sequence index
    workQ,       \* coupled_frames_queue
    emitted,     \* history: the sequence indices put on coupled_frames_queue
    wPc,         \* per worker: position of processing_loop
    wElem,       \* per worker: the bundle being processed
    wLandmarks,  \* per worker: the landmarks list of the current bundle
    wI,          \* per worker: next out queue to write
    procQ,       \* per camera: processed_queues
    procPut,     \* history, per camera: how often each index was put on procQ
    ordPc,       \* per camera: position of ordering_loop
    expecting,   \* per camera: ordering_loop's expecting
    unordered,   \* per camera: ordering_loop's pending buffer
    ordQ,        \* per camera: ordered_processed_queues
    dispPc,      \* per camera: position of display_loop
    shown,       \* history, per camera: the frames display_loop took
    mainPc,      \* position of main
    mainI,       \* main: next processed queue to finalize
    rcPc,        \* reconstruction script: position of its main loop
    rcHand,      \* reconstruction script, per camera: hand_landmarks is not None
    rcPointIdx,  \* reconstruction script: point_idx of the 's' handler
    rcPoints,    \* reconstruction script: len(points_3d)
    rcResult,    \* reconstruction script: what triangulate_points returned last
    hist,        \* histories kept for single claims, per camera:
                 \*   written: the number of frames cap_reading published
                 \*   quitAt: the number of frames display_loop had taken
                 \*           when it first saw the 'q' key, 0 before
                 \*   lateWrites: the frames published with the stop set
                 \* and latePuts: the bundles put with the stop set
    bn,          \* the body of processing_loop for one bundle: the number of
                 \* cameras (cams), the cameras whose detector reports a right
                 \* hand (detected), landmarks, lm_id, lmcs, chosen_cams,
                 \* points_3d (each point by its landmark index), whether the
                 \* overlay was drawn, the position (pc) and, as a history,
                 \* what was forwarded for each bundle so far
    cal          \* the calibration script: its position (pc), --n (needed),
                 \* the number of the iteration of the capture loop (iter),
                 \* per camera the frame and the corners held, each named by
                 \* the iteration that produced it, the key read last, the
                 \* shots, and whether the cameras file was written

vars == <<capPc, lastFrame, stop, cplPc, cplI, cplFrames, index, workQ, emitted,
          wPc, wElem, wLandmarks, wI, procQ, procPut, ordPc, expecting,
          unordered, ordQ, dispPc, shown, mainPc, mainI,
          rcPc, rcHand, rcPointIdx, rcPoints, rcResult,
          hist, bn, cal>>

capVars == <<capPc, lastFrame>>
cplVars == <<cplPc, cplI, cplFrames, index, workQ, emitted>>
wVars == <<wPc, wElem, wLandmarks, wI>>
ordVars == <<ordPc, expecting, unordered, ordQ>>
dispVars == <<dispPc, shown>>
mainVars == <<mainPc, mainI>>
reconVars == <<rcPc, rcHand, rcPointIdx, rcPoints, rcResult>>
pipelineVars == <<capVars, stop, cplVars, wVars, procQ, procPut, ordVars,
                  dispVars, mainVars>>

\* the content of a slot before its first write: Wrapped(None)
None == 0

\* a frame returned by cap.read(), its content left out
AnyFrame == 1

NoElem == [index |-> -1, frames |-> <<>>]
EmptyDict == [i \in {} |-> 0]

-----------------------------------------------------------------------------
(* State after main() has created the shared objects and started every     *)
(* thread; main itself is about to wait for the stop signal.               *)

PipelineInit ==
    /\ capPc = [c \in Cams |-> "open"]
    /\ lastFrame = [c \in Cams |-> None]
    /\ stop = FALSE
    /\ cplPc = "barrier"
    /\ cplI = 1
    /\ cplFrames = <<>>
    /\ index = 0
    /\ workQ = QNew
    /\ emitted = <<>>
    /\ wPc = [w \in Workers |-> "get"]
    /\ wElem = [w \in Workers |-> NoElem]
    /\ wLandmarks = [w \in Workers |-> <<>>]
    /\ wI = [w \in Workers |-> 1]
    /\ procQ = [c \in Cams |-> QNew]
    /\ procPut = [c \in Cams |-> [i \in Indices |-> 0]]
    /\ ordPc = [c \in Cams |-> "run"]
    /\ expecting = [c \in Cams |-> 0]
    /\ unordered = [c \in Cams |-> EmptyDict]
    /\ ordQ = [c \in Cams |-> QNew]
    /\ dispPc = [c \in Cams |-> "run"]
    /\ shown = [c \in Cams |-> <<>>]
    /\ mainPc = "wait"
    /\ mainI = 1

\* the reconstruction script (src/realtime_hand_3d_reconstruction.py) is a
\* separate program; it does not run beside the pipeline
ReconOff ==
    /\ rcPc = "off"
    /\ rcHand = [c \in Cams |-> FALSE]
    /\ rcPointIdx = 0
    /\ rcPoints = 0
    /\ rcResult = "unset"

\* the histories kept for single claims are switched off
ObsOff ==
    hist = [written |-> [c \in Cams |-> 0], quitAt |-> [c \in Cams |-> 0],
            lateWrites |-> [c \in Cams |-> 0], latePuts |-> 0]

\* the body of processing_loop for one bundle is studied on its own
NoBundle ==
    [cams |-> 0, detected |-> {}, landmarks |-> <<>>, lm_id |-> 0, lmcs |-> <<>>,
     chosen_cams |-> <<>>, points_3d |-> <<>>, overlay |-> FALSE, pc |-> "off",
     forwarded |-> <<>>]

BundleOff == bn = NoBundle

\* the calibration script is studied on its own
NoCalib ==
    [pc |-> "off", needed |-> 0, iter |-> 0,
     frame |-> [c \in Cams |-> None], corners |-> [c \in Cams |-> None],
     key |-> "none", shots |-> <<>>, written |-> FALSE]

CalibOff == cal = NoCalib

Init == PipelineInit /\ ReconOff /\ ObsOff /\ BundleOff /\ CalibOff

-----------------------------------------------------------------------------
(* cap_reading *)

CapTerminal == {"open_failed", "focus_failed", "read_failed", "finished"}

\* cv2.VideoCapture(idx), isOpened, set(CAP_PROP_FOCUS): sys.exit(1) in the
\* thread on failure, which ends this thread only
CapOpen(c) ==
    /\ capPc[c] = "open"
    /\ \E r \in {"top", "open_failed", "focus_failed"} :
          capPc' = [capPc EXCEPT ![c] = r]
    /\ UNCHANGED <<lastFrame, stop>>
    /\ UNCHANGED <<cplVars, wVars, procQ, procPut, ordVars, dispVars, mainVars>>
    /\ UNCHANGED <<reconVars, bn, hist, cal>>

\* a FrameSource that does not look at the stop signal
CapCheckStopBlind(c) ==
    /\ capPc[c] = "top"
    /\ capPc' = [capPc EXCEPT ![c] = "read"]
    /\ UNCHANGED <<lastFrame, stop>>
    /\ UNCHANGED <<cplVars, wVars, procQ, procPut, ordVars, dispVars, mainVars>>
    /\ UNCHANGED <<reconVars, bn, hist, cal>>

\* top of the loop: if stop_event.is_set(): break
CapCheckStop(c) ==
    /\ capPc[c] = "top"
    /\ IF stop
          THEN capPc' = [capPc EXCEPT ![c] = "finished"]
          ELSE capPc' = [capPc EXCEPT ![c] = "read"]
    /\ UNCHANGED <<lastFrame, stop>>
    /\ UNCHANGED <<cplVars, wVars, procQ, procPut, ordVars, dispVars, mainVars>>
    /\ UNCHANGED <<reconVars, bn, hist, cal>>

\* a FrameSource that sets the stop signal when its read fails
CapOnReadFailureStops(s) == TRUE

\* what cap_reading does when cap.read() reports a failure: print and break
CapOnReadFailure(s) == s

\* a slot that keeps a frame the Synchronizer may not have read yet
SlotSetIfEmpty(old, frame) == IF old = None THEN frame ELSE old

\* my_last_frame.set(...): the slot holds the new frame, whatever it held
SlotSet(old, frame) == frame

\* ret, frame = cap.read(); failure ends the loop, success overwrites the
\* slot with the frame read
CapReadFrame(c, frame) ==
    /\ capPc[c] = "read"
    /\ \E ret \in BOOLEAN :
          IF ret
             THEN /\ lastFrame' = [lastFrame EXCEPT ![c] = SlotSet(@, frame)]
                  /\ capPc' = [capPc EXCEPT ![c] = "top"]
                  /\ stop' = stop
             ELSE /\ capPc' = [capPc EXCEPT ![c] = "read_failed"]
                  /\ stop' = CapOnReadFailure(stop)
                  /\ UNCHANGED lastFrame
    /\ UNCHANGED <<cplVars, wVars, procQ, procPut, ordVars, dispVars, mainVars>>
    /\ UNCHANGED <<reconVars, bn, cal>>

CapRead(c) == CapReadFrame(c, AnyFrame) /\ UNCHANGED hist

-----------------------------------------------------------------------------
(* coupling_loop *)

\* wait until every slot holds a frame
\* a barrier that opens as soon as one slot has been written
SomeSlotWritten(lf) == \E c \in Cams : lf[c] # None

\* all(a_last_frame.get() is not None for a_last_frame in last_frame)
AllSlotsWritten(lf) == \A c \in Cams : lf[c] # None

CouplingBarrier ==
    /\ cplPc = "barrier"
    /\ AllSlotsWritten(lastFrame)
    /\ cplPc' = "top"
    /\ UNCHANGED <<cplI, cplFrames, index, workQ, emitted>>
    /\ UNCHANGED <<capVars, stop, wVars, procQ, procPut, ordVars, dispVars, mainVars>>
    /\ UNCHANGED <<reconVars, bn, hist, cal>>

\* top of the loop: if stop_event.is_set(): break
CouplingCheckStop ==
    /\ cplPc = "top"
    /\ IF stop
          THEN cplPc' = "finalize"
          ELSE /\ index < MaxBundles
               /\ cplPc' = "read"
    /\ cplI' = 1
    /\ cplFrames' = <<>>
    /\ UNCHANGED <<index, workQ, emitted>>
    /\ UNCHANGED <<capVars, stop, wVars, procQ, procPut, ordVars, dispVars, mainVars>>
    /\ UNCHANGED <<reconVars, bn, hist, cal>>

\* for frame in last_frame: frames.append(frame.get() copy)
CouplingRead ==
    /\ cplPc = "read"
    /\ cplFrames' = Append(cplFrames, lastFrame[cplI])
    /\ IF cplI = NumCams
          THEN cplPc' = "put" /\ cplI' = 1
          ELSE cplPc' = "read" /\ cplI' = cplI + 1
    /\ UNCHANGED <<index, workQ, emitted>>
    /\ UNCHANGED <<capVars, stop, wVars, procQ, procPut, ordVars, dispVars, mainVars>>
    /\ UNCHANGED <<reconVars, bn, hist, cal>>

\* a Synchronizer that does not advance its index
NextIndexStuck(i) == i

\* index += 1
NextIndex(i) == i + 1

\* a work queue of capacity one, whose put waits for room
PutWaitsForRoom(q) == Len(q.items) >= 1

\* coupled_frames_queue = ThreadFinalizableQueue(): no capacity is given, and
\* put is called without a timeout: it does not wait, whatever the depth
PutWaits(q) == FALSE

\* coupled_frames_queue.put((index, frames, fps)); index += 1
CouplingPutBundle ==
    /\ cplPc = "put"
    /\ ~PutWaits(workQ)
    /\ workQ' = QPut(workQ, [index |-> index, frames |-> cplFrames])
    /\ emitted' = Append(emitted, index)
    /\ index' = NextIndex(index)
    /\ cplFrames' = <<>>
    /\ cplPc' = "top"
    /\ UNCHANGED cplI
    /\ UNCHANGED <<capVars, stop, wVars, procQ, procPut, ordVars, dispVars, mainVars>>
    /\ UNCHANGED <<reconVars, bn, cal>>

CouplingPut == CouplingPutBundle /\ UNCHANGED hist

\* a Synchronizer that leaves its output queue open
CouplingOnExitNoFinalize(q) == q

\* what coupling_loop does to its output queue after leaving the loop
CouplingOnExit(q) == QFinalize(q)

\* coupled_frames_queue.finalize()
CouplingFinalize ==
    /\ cplPc = "finalize"
    /\ workQ' = CouplingOnExit(workQ)
    /\ cplPc' = "done"
    /\ UNCHANGED <<cplI, cplFrames, index, emitted>>
    /\ UNCHANGED <<capVars, stop, wVars, procQ, procPut, ordVars, dispVars, mainVars>>
    /\ UNCHANGED <<reconVars, bn, hist, cal>>

-----------------------------------------------------------------------------
(* processing_loop *)

\* lines 152-167: one entry is appended per camera whose detector reports a
\* right hand, in camera order; nothing is appended for the other cameras.
\* An entry is represented by the camera its landmarks come from.
RECURSIVE DetectLandmarksOf(_, _, _)
DetectLandmarksOf(n, c, D) ==
    IF c > n THEN <<>>
    ELSE IF c \in D THEN <<c>> \o DetectLandmarksOf(n, c + 1, D)
    ELSE DetectLandmarksOf(n, c + 1, D)

DetectLandmarks(c, D) == DetectLandmarksOf(NumCams, c, D)

\* povs_with_landmarks: the positions of the landmarks list (no entry is None)
PovsWithLandmarks(landmarks) == 1..Len(landmarks)

\* a guard that lets a single view through
EnoughPovsOne(landmarks) == Cardinality(PovsWithLandmarks(landmarks)) >= 1

\* the guard of the triangulation and of the reprojection overlay
EnoughPovs(landmarks) == Cardinality(PovsWithLandmarks(landmarks)) >= 2

\* the item a worker puts on an out queue: (index, frame)
ProcessedFrame(elem) == [index |-> elem.index]

\* a worker that writes every frame to the first out queue
WorkerOutQueueFirst(i) == 1

\* zip(out_queues, frames): the i-th frame goes to the i-th out queue
WorkerOutQueue(i) == i

\* elem = coupled_frames_queue.get(), then detection on every frame
WorkerGet(w) ==
    /\ wPc[w] = "get"
    /\ QHasItem(workQ)
    /\ workQ' = QPop(workQ)
    /\ wElem' = [wElem EXCEPT ![w] = QHead(workQ)]
    /\ \E D \in SUBSET Cams :
          wLandmarks' = [wLandmarks EXCEPT ![w] = DetectLandmarks(1, D)]
    /\ wPc' = [wPc EXCEPT ![w] = "put"]
    /\ wI' = [wI EXCEPT ![w] = 1]
    /\ UNCHANGED <<cplPc, cplI, cplFrames, index, emitted>>
    /\ UNCHANGED <<capVars, stop, procQ, procPut, ordVars, dispVars, mainVars>>
    /\ UNCHANGED <<reconVars, bn, hist, cal>>

\* a worker that takes an empty input for the end of the stream
WorkerEndOnEmpty(w) ==
    /\ wPc[w] = "get"
    /\ Len(workQ.items) = 0
    /\ wPc' = [wPc EXCEPT ![w] = "done"]
    /\ UNCHANGED <<wElem, wLandmarks, wI>>
    /\ UNCHANGED <<capVars, stop, cplVars, procQ, procPut, ordVars, dispVars, mainVars>>
    /\ UNCHANGED <<reconVars, bn, hist, cal>>

\* except EmptyFinalized: break
WorkerEnd(w) ==
    /\ wPc[w] = "get"
    /\ QEmptyFinalized(workQ)
    /\ wPc' = [wPc EXCEPT ![w] = "done"]
    /\ UNCHANGED <<wElem, wLandmarks, wI>>
    /\ UNCHANGED <<capVars, stop, cplVars, procQ, procPut, ordVars, dispVars, mainVars>>
    /\ UNCHANGED <<reconVars, bn, hist, cal>>

\* for out_queue, frame in zip(out_queues, frames): out_queue.put((index, frame))
WorkerPut(w) ==
    /\ wPc[w] = "put"
    /\ LET q == WorkerOutQueue(wI[w])
           item == ProcessedFrame(wElem[w])
       IN  /\ procQ' = [procQ EXCEPT ![q] = QPut(@, item)]
           /\ procPut' = [procPut EXCEPT ![q][item.index] = @ + 1]
    /\ IF wI[w] = NumCams
          THEN /\ wPc' = [wPc EXCEPT ![w] = "get"]
               /\ wI' = [wI EXCEPT ![w] = 1]
               /\ wElem' = [wElem EXCEPT ![w] = NoElem]
               /\ wLandmarks' = [wLandmarks EXCEPT ![w] = <<>>]
          ELSE /\ wI' = [wI EXCEPT ![w] = @ + 1]
               /\ UNCHANGED <<wPc, wElem, wLandmarks>>
    /\ UNCHANGED <<capVars, stop, cplVars, ordVars, dispVars, mainVars>>
    /\ UNCHANGED <<reconVars, bn, hist, cal>>

-----------------------------------------------------------------------------
(* ordering_loop *)

\* a buffer that keeps what has been emitted from it
DictDelNothing(d, k) == d

\* del unordered[expecting]
DictDel(d, k) == [i \in DOMAIN d \ {k} |-> d[i]]
\* a buffer that has no room for the element
DictSetNothing(d, k, v) == d

\* unordered[index] = data
DictSet(d, k, v) == [i \in DOMAIN d \cup {k} |-> IF i = k THEN v ELSE d[i]]

\* a Reorderer that never looks into its buffer
OrderingCascadeNone(e, u, out) == [expecting |-> e, unordered |-> u, out |-> out]

\* the inner while loop: expecting += 1; emit and delete while the buffer
\* holds the new expecting
RECURSIVE OrderingCascade(_, _, _)
OrderingCascade(e, u, out) ==
    IF e \in DOMAIN u
       THEN OrderingCascade(e + 1, DictDel(u, e), Append(out, u[e]))
       ELSE [expecting |-> e, unordered |-> u, out |-> out]

\* a Reorderer that passes every element on as it arrives
OrderingStepArrival(e, u, elem) ==
    [expecting |-> e, unordered |-> u, out |-> <<elem>>]

\* a Reorderer that drops an element that is not the expected one
OrderingStepDropping(e, u, elem) ==
    IF e = elem.index
       THEN [expecting |-> e + 1, unordered |-> u, out |-> <<elem>>]
       ELSE [expecting |-> e, unordered |-> u, out |-> <<>>]

\* the body of the loop for one element (index, data): the new expecting,
\* the new buffer and the data put on the out queue, in order
OrderingStep(e, u, elem) ==
    IF e = elem.index
       THEN OrderingCascade(e + 1, u, <<elem>>)
       ELSE [expecting |-> e, unordered |-> DictSet(u, elem.index, elem), out |-> <<>>]

RECURSIVE QPutAll(_, _)
QPutAll(q, xs) == IF xs = <<>> THEN q ELSE QPutAll(QPut(q, Head(xs)), Tail(xs))

\* elem = in_queue.get() and the whole loop body
OrderingGet(c) ==
    /\ ordPc[c] = "run"
    /\ QHasItem(procQ[c])
    /\ LET r == OrderingStep(expecting[c], unordered[c], QHead(procQ[c]))
       IN  /\ expecting' = [expecting EXCEPT ![c] = r.expecting]
           /\ unordered' = [unordered EXCEPT ![c] = r.unordered]
           /\ ordQ' = [ordQ EXCEPT ![c] = QPutAll(@, r.out)]
    /\ procQ' = [procQ EXCEPT ![c] = QPop(@)]
    /\ UNCHANGED <<ordPc, procPut>>
    /\ UNCHANGED <<capVars, stop, cplVars, wVars, dispVars, mainVars>>
    /\ UNCHANGED <<reconVars, bn, hist, cal>>

\* a Reorderer that leaves its output queue open
OrderingOnExitOpen(q) == q

\* out_queue.finalize() after the loop
OrderingOnExit(q) == QFinalize(q)

\* except EmptyFinalized: break; out_queue.finalize()
OrderingEnd(c) ==
    /\ ordPc[c] = "run"
    /\ QEmptyFinalized(procQ[c])
    /\ ordQ' = [ordQ EXCEPT ![c] = OrderingOnExit(@)]
    /\ ordPc' = [ordPc EXCEPT ![c] = "done"]
    /\ UNCHANGED <<expecting, unordered, procQ, procPut>>
    /\ UNCHANGED <<capVars, stop, cplVars, wVars, dispVars, mainVars>>
    /\ UNCHANGED <<reconVars, bn, hist, cal>>

-----------------------------------------------------------------------------
(* display_loop *)

Keys == {"q", "none"}

\* a Sink that takes no notice of the quit key
DisplayOnKeyIgnore(key, s) == s

\* if key & 0xFF == ord("q"): stop_event.set()
DisplayOnKey(key, s) == s \/ key = "q"

\* frame = frame_queue.get(); imshow; key = cv2.waitKey(1); the loop goes on
\* whatever the key is
DisplayGetKey(c, key) ==
    /\ dispPc[c] = "run"
    /\ QHasItem(ordQ[c])
    /\ shown' = [shown EXCEPT ![c] = Append(@, QHead(ordQ[c]))]
    /\ ordQ' = [ordQ EXCEPT ![c] = QPop(@)]
    /\ stop' = DisplayOnKey(key, stop)
    /\ UNCHANGED <<dispPc, ordPc, expecting, unordered>>
    /\ UNCHANGED <<capVars, cplVars, wVars, procQ, procPut, mainVars>>
    /\ UNCHANGED <<reconVars, bn, cal>>

DisplayGet(c) == (\E key \in Keys : DisplayGetKey(c, key)) /\ UNCHANGED hist

\* except EmptyFinalized: break
DisplayEnd(c) ==
    /\ dispPc[c] = "run"
    /\ QEmptyFinalized(ordQ[c])
    /\ dispPc' = [dispPc EXCEPT ![c] = "done"]
    /\ UNCHANGED shown
    /\ UNCHANGED <<capVars, stop, cplVars, wVars, procQ, procPut, ordVars, mainVars>>
    /\ UNCHANGED <<reconVars, bn, hist, cal>>

-----------------------------------------------------------------------------
(* main: the shutdown sequence, lines 475-500 *)

\* cams_stop_event.wait()
MainWait ==
    /\ mainPc = "wait"
    /\ stop
    /\ mainPc' = "join_coupling"
    /\ UNCHANGED mainI
    /\ UNCHANGED <<capVars, stop, cplVars, wVars, procQ, procPut, ordVars, dispVars>>
    /\ UNCHANGED <<reconVars, bn, hist, cal>>

\* coupling_worker.join(), line 480
MainJoinCoupling ==
    /\ mainPc = "join_coupling"
    /\ cplPc = "done"
    /\ mainPc' = "join_caps"
    /\ UNCHANGED mainI
    /\ UNCHANGED <<capVars, stop, cplVars, wVars, procQ, procPut, ordVars, dispVars>>
    /\ UNCHANGED <<reconVars, bn, hist, cal>>

\* for process in cap_processes: process.join(), then coupling_worker.join()
\* again (line 486), which returns at once
MainJoinCaps ==
    /\ mainPc = "join_caps"
    /\ \A c \in Cams : capPc[c] \in CapTerminal
    /\ cplPc = "done"
    /\ mainPc' = "join_workers"
    /\ UNCHANGED mainI
    /\ UNCHANGED <<capVars, stop, cplVars, wVars, procQ, procPut, ordVars, dispVars>>
    /\ UNCHANGED <<reconVars, bn, hist, cal>>

\* a main that does not join the workers
WorkersNotJoined == TRUE

\* what the joins of lines 488-489 wait for
WorkersJoined == \A w \in Workers : wPc[w] = "done"

\* for process in processing_loops_pool: process.join()
MainJoinWorkers ==
    /\ mainPc = "join_workers"
    /\ WorkersJoined
    /\ mainPc' = "finalize"
    /\ mainI' = 1
    /\ UNCHANGED <<capVars, stop, cplVars, wVars, procQ, procPut, ordVars, dispVars>>
    /\ UNCHANGED <<reconVars, bn, hist, cal>>

\* for queue in processed_queues: queue.finalize()
MainFinalize ==
    /\ mainPc = "finalize"
    /\ procQ' = [procQ EXCEPT ![mainI] = QFinalize(@)]
    /\ IF mainI = NumCams
          THEN mainPc' = "join_ordering" /\ mainI' = 1
          ELSE mainPc' = "finalize" /\ mainI' = mainI + 1
    /\ UNCHANGED <<capVars, stop, cplVars, wVars, procPut, ordVars, dispVars>>
    /\ UNCHANGED <<reconVars, bn, hist, cal>>

\* for process in ordering_loops: process.join()
MainJoinOrdering ==
    /\ mainPc = "join_ordering"
    /\ \A c \in Cams : ordPc[c] = "done"
    /\ mainPc' = "join_display"
    /\ UNCHANGED mainI
    /\ UNCHANGED <<capVars, stop, cplVars, wVars, procQ, procPut, ordVars, dispVars>>
    /\ UNCHANGED <<reconVars, bn, hist, cal>>

\* for process in display_loops: process.join(); cv2.destroyAllWindows()
MainJoinDisplay ==
    /\ mainPc = "join_display"
    /\ \A c \in Cams : dispPc[c] = "done"
    /\ mainPc' = "done"
    /\ UNCHANGED mainI
    /\ UNCHANGED <<capVars, stop, cplVars, wVars, procQ, procPut, ordVars, dispVars>>
    /\ UNCHANGED <<reconVars, bn, hist, cal>>

-----------------------------------------------------------------------------
(* The pipeline *)

CapStep(c) == CapOpen(c) \/ CapCheckStop(c) \/ CapRead(c)
CouplingStep == CouplingBarrier \/ CouplingCheckStop \/ CouplingRead
                    \/ CouplingPut \/ CouplingFinalize
WorkerStep(w) == WorkerGet(w) \/ WorkerEnd(w) \/ WorkerPut(w)
OrderingLoopStep(c) == OrderingGet(c) \/ OrderingEnd(c)
DisplayStep(c) == DisplayGet(c) \/ DisplayEnd(c)
MainStep == MainWait \/ MainJoinCoupling \/ MainJoinCaps \/ MainJoinWorkers
                \/ MainFinalize \/ MainJoinOrdering \/ MainJoinDisplay

Next ==
    \/ \E c \in Cams : CapStep(c)
    \/ CouplingStep
    \/ \E w \in Workers : WorkerStep(w)
    \/ \E c \in Cams : OrderingLoopStep(c)
    \/ \E c \in Cams : DisplayStep(c)
    \/ MainStep

Spec == Init /\ [][Next]_vars

\* every thread that can take a step eventually takes one
Fairness ==
    /\ \A c \in Cams : WF_vars(CapStep(c))
    /\ WF_vars(CouplingStep)
    /\ \A w \in Workers : WF_vars(WorkerStep(w))
    /\ \A c \in Cams : WF_vars(OrderingLoopStep(c))
    /\ \A c \in Cams : WF_vars(DisplayStep(c))
    /\ WF_vars(MainStep)

FairSpec == Init /\ [][Next]_vars /\ Fairness

-----------------------------------------------------------------------------
(* The pipeline with the history of the quit key: which Sink saw it, and    *)
(* after how many frames.                                                   *)

DisplayGetSeen(c) ==
    /\ \E key \in Keys :
          /\ DisplayGetKey(c, key)
          /\ hist' = [hist EXCEPT !.quitAt[c] =
                           IF key = "q" /\ @ = 0 THEN Len(shown[c]) + 1 ELSE @]

QuitNext ==
    \/ \E c \in Cams : CapStep(c)
    \/ CouplingStep
    \/ \E w \in Workers : WorkerStep(w)
    \/ \E c \in Cams : OrderingLoopStep(c)
    \/ \E c \in Cams : DisplayGetSeen(c) \/ DisplayEnd(c)
    \/ MainStep

QuitSpec == Init /\ [][QuitNext]_vars

-----------------------------------------------------------------------------
(* The pipeline with the count of what the FrameSources and the             *)
(* Synchronizer still produce once the stop signal is set. The counts stop  *)
(* at MaxLate.                                                              *)

MaxLate == 2

CountLate(n) == IF n < MaxLate THEN n + 1 ELSE n

CapReadLate(c) ==
    /\ CapReadFrame(c, AnyFrame)
    /\ hist' = [hist EXCEPT !.lateWrites[c] =
                       IF stop /\ capPc'[c] = "top" THEN CountLate(@) ELSE @]

CouplingPutLate ==
    /\ CouplingPutBundle
    /\ hist' = [hist EXCEPT !.latePuts = IF stop THEN CountLate(@) ELSE @]

StopNext ==
    \/ \E c \in Cams : CapOpen(c) \/ CapCheckStop(c) \/ CapReadLate(c)
    \/ CouplingBarrier \/ CouplingCheckStop \/ CouplingRead
    \/ CouplingPutLate \/ CouplingFinalize
    \/ \E w \in Workers : WorkerStep(w)
    \/ \E c \in Cams : OrderingLoopStep(c)
    \/ \E c \in Cams : DisplayStep(c)
    \/ MainStep

StopSpec == Init /\ [][StopNext]_vars

-----------------------------------------------------------------------------
(* calibrate.py: the capture loop, the calibration and the write of the     *)
(* cameras file. A frame and the corners found in it are named by the       *)
(* iteration of the capture loop that produced them.                        *)

MaxIters == 4
MaxNeeded == 2

CalibKeys == {"q", "c", "s", "none"}

CalibInit ==
    /\ PipelineInit /\ ReconOff /\ ObsOff /\ BundleOff
    /\ \E n \in 0..MaxNeeded :
          cal = [NoCalib EXCEPT !.pc = "read", !.needed = n, !.iter = 1]

\* for cam in cameras.values(): ret, frame = cap.read(); a failed read keeps
\* the frame of an earlier iteration
CalibRead ==
    /\ cal.pc = "read"
    /\ cal.iter <= MaxIters
    /\ \E R \in SUBSET Cams :
          cal' = [cal EXCEPT
                     !.frame = [c \in Cams |-> IF c \in R THEN cal.iter ELSE @[c]],
                     !.pc = "detect"]
    /\ UNCHANGED <<pipelineVars, reconVars, bn, hist>>

\* corners that stay when the pattern is not found
CornersKept(old, found, it) == IF found THEN it ELSE old

\* cam["corners"] = corners if ret_corners else None
Corners(old, found, it) == IF found THEN it ELSE None

\* the detection pass over all cameras; cam["frame"] of a camera that never
\* delivered a frame raises KeyError
CalibDetect ==
    /\ cal.pc = "detect"
    /\ IF \E c \in Cams : cal.frame[c] = None
          THEN cal' = [cal EXCEPT !.pc = "crashed"]
          ELSE \E D \in SUBSET Cams :
                  cal' = [cal EXCEPT
                             !.corners = [c \in Cams |->
                                             Corners(@[c], c \in D, cal.iter)],
                             !.pc = "key"]
    /\ UNCHANGED <<pipelineVars, reconVars, bn, hist>>

\* missing_cameras
MissingCameras(corners) == {c \in Cams : corners[c] = None}

\* key = cv2.waitKey(1) and the branches on 'q', 'c' and 's'
CalibKey(key) ==
    /\ cal.pc = "key"
    /\ cal' =
          CASE key = "q" -> [cal EXCEPT !.key = key, !.pc = "exited"]
            [] key = "c" ->
                 [cal EXCEPT !.key = key,
                             !.shots = IF MissingCameras(cal.corners) # {}
                                          THEN @
                                          ELSE Append(@, cal.corners),
                             !.pc = "read", !.iter = @ + 1]
            [] key = "s" ->
                 IF Len(cal.shots) < cal.needed
                    THEN [cal EXCEPT !.key = key, !.pc = "read", !.iter = @ + 1]
                    ELSE [cal EXCEPT !.key = key, !.pc = "calibrate"]
            [] OTHER -> [cal EXCEPT !.key = key, !.pc = "read", !.iter = @ + 1]
    /\ UNCHANGED <<pipelineVars, reconVars, bn, hist>>

\* the calibrations and the write of the cameras file; a calibration that
\* raises ends the script before the write
CalibCalibrate ==
    /\ cal.pc = "calibrate"
    /\ \E ok \in BOOLEAN :
          cal' = IF ok THEN [cal EXCEPT !.written = TRUE, !.pc = "saved"]
                       ELSE [cal EXCEPT !.pc = "crashed"]
    /\ UNCHANGED <<pipelineVars, reconVars, bn, hist>>

CalibNext ==
    \/ CalibRead
    \/ CalibDetect
    \/ \E key \in CalibKeys : CalibKey(key)
    \/ CalibCalibrate

CalibSpec == CalibInit /\ [][CalibNext]_vars

-----------------------------------------------------------------------------
(* The FrameSources and the Synchronizer alone, with the frames of a camera *)
(* numbered in the order it publishes them: frame n of camera c is n.       *)

MaxFrames == 3

CapReadNumbered(c) ==
    /\ hist.written[c] < MaxFrames
    /\ CapReadFrame(c, hist.written[c] + 1)
    /\ hist' = [hist EXCEPT !.written[c] =
                       IF capPc'[c] = "top" THEN @ + 1 ELSE @]

CaptureNext ==
    \/ \E c \in Cams : CapOpen(c) \/ CapCheckStop(c) \/ CapReadNumbered(c)
    \/ CouplingBarrier
    \/ CouplingCheckStop
    \/ CouplingRead
    \/ CouplingPut

CaptureSpec == Init /\ [][CaptureNext]_vars

-----------------------------------------------------------------------------
(* The body of processing_loop for one bundle after another, lines 152-295, *)
(* for a run with 2..MaxCams cameras: detection, triangulation, overlay.    *)
(* A camera's parameters, frame and landmarks are named by the camera.      *)

MaxCams == 3

\* lines 177-201: the view built for position pov_i of the landmarks list:
\* cameras_params[pov_i] and frames[pov_i] with landmarks[pov_i][lm_id]
ContextedLandmark(landmarks, pov_i, lm_id) ==
    [cam_idx |-> pov_i, P |-> pov_i, intrinsic |-> pov_i, frame |-> pov_i,
     lm |-> [cam |-> landmarks[pov_i], id |-> lm_id]]

\* lines 176-201: lmcs for one landmark index
Lmcs(landmarks, lm_id) ==
    [k \in 1..Len(landmarks) |-> ContextedLandmark(landmarks, k, lm_id)]

\* triangulate_lmcs: every view it is given contributes to the point
triangulate_lmcs(lmcs) ==
    [chosen |-> {lmcs[k].cam_idx : k \in 1..Len(lmcs)}, point_3d |-> "point"]

BundleInit ==
    /\ PipelineInit /\ ReconOff /\ ObsOff /\ CalibOff
    /\ \E n \in 2..MaxCams : bn = [NoBundle EXCEPT !.cams = n, !.pc = "detect"]

\* lines 152-173: detection on every frame, then the empty result lists
BundleDetect ==
    /\ bn.pc = "detect"
    /\ Len(bn.forwarded) < MaxBundles
    /\ \E D \in SUBSET (1..bn.cams) :
          LET landmarks == DetectLandmarksOf(bn.cams, 1, D)
          IN  bn' = [bn EXCEPT !.detected = D,
                               !.landmarks = landmarks,
                               !.lm_id = 0,
                               !.lmcs = <<>>,
                               !.chosen_cams = <<>>,
                               !.points_3d = <<>>,
                               !.overlay = FALSE,
                               !.pc = IF EnoughPovs(landmarks)
                                         THEN "triangulate" ELSE "draw"]
    /\ UNCHANGED <<pipelineVars, reconVars, hist, cal>>

\* lines 175-207: one turn of the loop over the landmark indices
BundleTriangulate ==
    /\ bn.pc = "triangulate"
    /\ LET lmcs == Lmcs(bn.landmarks, bn.lm_id)
           r == triangulate_lmcs(lmcs)
       IN  bn' = [bn EXCEPT !.lmcs = lmcs,
                            !.chosen_cams = Append(@, r.chosen),
                            !.points_3d = Append(@, bn.lm_id),
                            !.lm_id = @ + 1,
                            !.pc = IF bn.lm_id + 1 = num_landmarks
                                      THEN "draw" ELSE "triangulate"]
    /\ UNCHANGED <<pipelineVars, reconVars, hist, cal>>

\* lines 239-283: the reprojection overlay, under the same guard
BundleDraw ==
    /\ bn.pc = "draw"
    /\ bn' = [bn EXCEPT !.overlay = EnoughPovs(bn.landmarks), !.pc = "put"]
    /\ UNCHANGED <<pipelineVars, reconVars, hist, cal>>

\* lines 293-297: the frames are forwarded, then the next bundle is taken
BundlePut ==
    /\ bn.pc = "put"
    /\ bn' = [bn EXCEPT !.forwarded =
                            Append(@, [detecting |-> Cardinality(bn.detected),
                                       points |-> Len(bn.points_3d),
                                       overlay |-> bn.overlay]),
                        !.pc = "detect"]
    /\ UNCHANGED <<pipelineVars, reconVars, hist, cal>>

BundleNext == BundleDetect \/ BundleTriangulate \/ BundleDraw \/ BundlePut

BundleSpec == BundleInit /\ [][BundleNext]_vars

-----------------------------------------------------------------------------
(* The Reorderer in isolation: camera 1's ordering_loop is fed an arbitrary *)
(* arrival permutation of the items 0..k-1 followed by end-of-stream.       *)

\* the largest number of items fed
MaxItems == 4

ArrivalOrders(k) ==
    {f \in [1..k -> 0..(k - 1)] : \A i, j \in 1..k : f[i] = f[j] => i = j}

ReorderInit ==
    \E k \in 0..MaxItems : \E f \in ArrivalOrders(k) :
       /\ capPc = [c \in Cams |-> "open"]
       /\ lastFrame = [c \in Cams |-> None]
       /\ stop = FALSE
       /\ cplPc = "barrier"
       /\ cplI = 1
       /\ cplFrames = <<>>
       /\ index = 0
       /\ workQ = QNew
       /\ emitted = <<>>
       /\ wPc = [w \in Workers |-> "get"]
       /\ wElem = [w \in Workers |-> NoElem]
       /\ wLandmarks = [w \in Workers |-> <<>>]
       /\ wI = [w \in Workers |-> 1]
       /\ procQ = [c \in Cams |->
                     [items |-> IF c = 1 THEN [i \in 1..k |-> [index |-> f[i]]]
                                         ELSE <<>>,
                      finalized |-> TRUE]]
       /\ procPut = [c \in Cams |->
                       [i \in 0..(MaxItems - 1) |->
                           IF c = 1 /\ i < k THEN 1 ELSE 0]]
       /\ ordPc = [c \in Cams |-> "run"]
       /\ expecting = [c \in Cams |-> 0]
       /\ unordered = [c \in Cams |-> EmptyDict]
       /\ ordQ = [c \in Cams |-> QNew]
       /\ dispPc = [c \in Cams |-> "run"]
       /\ shown = [c \in Cams |-> <<>>]
       /\ mainPc = "wait"
       /\ mainI = 1
       /\ ReconOff /\ ObsOff /\ BundleOff /\ CalibOff

ReorderNext == \E c \in Cams : OrderingGet(c) \/ OrderingEnd(c)

ReorderSpec == ReorderInit /\ [][ReorderNext]_vars

-----------------------------------------------------------------------------
(* src/realtime_hand_3d_reconstruction.py: the capture loop of main() and   *)
(* triangulate_points                                                       *)

\* lines 91-112: one view per camera whose hand_landmarks is not None
ReconViews(hand) == {c \in Cams : hand[c]}

\* lines 113-128: the 3D point with two views or more, None otherwise
triangulate_points(hand, point_idx) ==
    IF Cardinality(ReconViews(hand)) >= 2 THEN "point" ELSE "None"

\* lines 184-217: one pass over the cameras (a failed read keeps the previous
\* hand_landmarks, a successful one replaces it), then the key
ReconIteration ==
    /\ rcPc = "loop"
    /\ \E read \in [Cams -> {"read_failed", "no_hand", "hand"}] :
          rcHand' = [c \in Cams |->
                        IF read[c] = "read_failed" THEN rcHand[c]
                        ELSE read[c] = "hand"]
    /\ \E key \in {"q", "s", "none"} :
          rcPc' = CASE key = "q" -> "done"
                    [] key = "s" -> "triangulate"
                    [] OTHER -> "loop"
    /\ rcPointIdx' = 0
    /\ rcPoints' = 0
    /\ UNCHANGED rcResult
    /\ UNCHANGED <<pipelineVars, bn, hist, cal>>

\* lines 223-227: one turn of the loop over the landmarks in the 's' handler
ReconTriangulate ==
    /\ rcPc = "triangulate"
    /\ LET point_3d == triangulate_points(rcHand, rcPointIdx)
       IN  /\ rcResult' = point_3d
           /\ rcPoints' = IF point_3d # "None" THEN rcPoints + 1 ELSE rcPoints
    /\ rcPointIdx' = rcPointIdx + 1
    /\ rcPc' = IF rcPointIdx + 1 = num_landmarks THEN "loop" ELSE "triangulate"
    /\ UNCHANGED rcHand
    /\ UNCHANGED <<pipelineVars, bn, hist, cal>>

ReconInit ==
    /\ PipelineInit
    /\ rcPc = "loop"
    /\ rcHand = [c \in Cams |-> FALSE]
    /\ rcPointIdx = 0
    /\ rcPoints = 0
    /\ rcResult = "unset"
    /\ ObsOff /\ BundleOff /\ CalibOff

ReconNext == ReconIteration \/ ReconTriangulate

ReconSpec == ReconInit /\ [][ReconNext]_vars

-----------------------------------------------------------------------------
(* Properties *)

InOrder(seq) == \A k \in 1..Len(seq) : seq[k].index = k - 1
EmittedSet == {emitted[k] : k \in 1..Len(emitted)}
ShownSet(c) == {shown[c][k].index : k \in 1..Len(shown[c])}
Fed(c) == {i \in DOMAIN procPut[c] : procPut[c][i] > 0}
InWorkQ(i) == \E k \in 1..Len(workQ.items) : workQ.items[k].index = i
HeldBy(w, i) == wPc[w] = "put" /\ wElem[w].index = i

AllQueuesFinalized ==
    /\ workQ.finalized
    /\ \A c \in Cams : procQ[c].finalized /\ ordQ[c].finalized

AllTerminated ==
    /\ \A c \in Cams : capPc[c] \in CapTerminal
    /\ cplPc = "done"
    /\ \A w \in Workers : wPc[w] = "done"
    /\ \A c \in Cams : ordPc[c] = "done" /\ dispPc[c] = "done"
    /\ mainPc = "done"

\* C1: in the full pipeline the frames each Sink takes from its queue are
\* those of the bundle indices 0, 1, 2, ... in ascending order, without gap
\* or duplicate: the k-th frame taken is the frame of index k - 1.
C1_SinkTakesAscending == \A c \in Cams : InOrder(shown[c])

\* a Sink has taken two frames while a Reorderer holds an out-of-order item
C1_Witness ==
    \E c, d \in Cams : DOMAIN unordered[c] # {} /\ Len(shown[d]) >= 2

\* C2: the Reorderer alone, fed an arbitrary arrival order of the items
\* 0..k-1 and then end-of-stream: what it has put on its output queue is at
\* any time the items 0, 1, ... in order, and once it has finished it is all
\* k of them, each exactly once.
C2_ReordererOutput ==
    \A c \in Cams :
       /\ InOrder(ordQ[c].items)
       /\ ordPc[c] = "done" => Len(ordQ[c].items) = Cardinality(Fed(c))

\* arrival order 2, 0, 1: item 2 is buffered, item 0 emitted, item 1 to come
C2_Witness ==
    /\ DOMAIN unordered[1] = {2}
    /\ Len(ordQ[1].items) = 1
    /\ Len(procQ[1].items) = 1 /\ procQ[1].items[1].index = 1
    /\ Fed(1) = {0, 1, 2}

\* C3: the sequence indices the Synchronizer puts on the work queue are
\* 0, 1, 2, ...: the first is 0 and each next one is the previous plus 1.
C3_IndicesConsecutive == \A k \in 1..Len(emitted) : emitted[k] = k - 1

\* the Synchronizer has emitted several bundles and the stop signal is set
C3_Witness == Len(emitted) >= 2 /\ stop

\* C4: once the stop signal is raised, under fair scheduling every thread
\* eventually terminates, every queue is finalized and main's joins return.
C4_ShutdownLiveness == stop ~> (AllTerminated /\ AllQueuesFinalized)

\* the stop signal is raised while a Reorderer holds buffered out-of-order items
C4_Witness ==
    /\ stop
    /\ mainPc = "wait"
    /\ \E c \in Cams : DOMAIN unordered[c] # {}

\* C5: no item is lost at shutdown: a Sink that has observed end-of-stream
\* has taken the frame of every bundle the Synchronizer enqueued, and every
\* enqueued bundle's frame eventually reaches every camera's Sink.
C5_NoItemLoss ==
    /\ [](\A c \in Cams : dispPc[c] = "done" => EmittedSet \subseteq ShownSet(c))
    /\ \A i \in Indices : \A c \in Cams :
          (i \in EmittedSet) ~> (i \in ShownSet(c))

\* the work queue is finalized while bundles are still enqueued
C5_Witness == workQ.finalized /\ Len(workQ.items) > 0

\* C6: a FrameSource that gets a read failure raises the shared stop signal.
C6_ReadFailureRaisesStop ==
    \A c \in Cams : capPc[c] = "read_failed" => stop

\* C7: after a camera open or configure failure no bundle is ever emitted and
\* main does not stay blocked waiting for the stop signal.
C7_StartupFailureAborts ==
    (\E c \in Cams : capPc[c] \in {"open_failed", "focus_failed"})
        => (emitted = <<>> /\ mainPc # "wait")

\* C8: triangulation called with 0 or 1 view fails with an invalid-input
\* error; it returns neither a point nor an empty result.
C8_FewViewsIsError ==
    (rcPointIdx > 0 /\ Cardinality(ReconViews(rcHand)) < 2)
        => rcResult = "invalid_input_error"

\* C9: per bundle a worker puts exactly one frame, tagged with the bundle's
\* index, on each camera's out queue, whatever the detections: an index not
\* yet taken by a worker is on no out queue, the index a worker holds is on
\* exactly the out queues the worker has passed, every other emitted index
\* is exactly once on every out queue.
C9_OnePerCameraPerBundle ==
    \A c \in Cams : \A i \in Indices :
       /\ procPut[c][i] <= 1
       /\ (i \notin EmittedSet \/ InWorkQ(i)) => procPut[c][i] = 0
       /\ \A w \in Workers :
             HeldBy(w, i) => procPut[c][i] = (IF c < wI[w] THEN 1 ELSE 0)
       /\ (i \in EmittedSet /\ ~InWorkQ(i) /\ \A w \in Workers : ~HeldBy(w, i))
             => procPut[c][i] = 1

\* a worker forwards the frames of a bundle in which fewer than 2 cameras detect
C9_Witness ==
    \E w \in Workers :
       /\ wPc[w] = "put" /\ wI[w] = NumCams
       /\ Len(wLandmarks[w]) < 2
       /\ procPut[1][wElem[w].index] = 1

\* C10: the stop cascades stage by stage: the work queue is finalized by the
\* Synchronizer after the stop signal; a camera's Worker-Pool output queue is
\* finalized only when the work queue is finalized and drained and every
\* worker has finished; a Reorderer's output is finalized only when its input
\* is finalized and drained; a Sink has terminated only when its input queue
\* is finalized and drained.
C10_StopCascade ==
    /\ workQ.finalized => (stop /\ cplPc = "done")
    /\ \A c \in Cams :
          /\ procQ[c].finalized =>
                /\ workQ.finalized /\ Len(workQ.items) = 0
                /\ \A w \in Workers : wPc[w] = "done"
          /\ ordQ[c].finalized =>
                (procQ[c].finalized /\ Len(procQ[c].items) = 0)
          /\ dispPc[c] = "done" =>
                (ordQ[c].finalized /\ Len(ordQ[c].items) = 0)

\* the cascade has run to its end after frames went through the pipeline
C10_Witness ==
    /\ AllTerminated /\ AllQueuesFinalized
    /\ \A c \in Cams : Len(shown[c]) = Len(emitted) /\ Len(emitted) >= 2

-----------------------------------------------------------------------------
(* main's joins, by its position *)

MainHasJoinedCoupling == mainPc \notin {"wait", "join_coupling"}
MainHasJoinedCaps == mainPc \notin {"wait", "join_coupling", "join_caps"}

\* C11: after the stop signal main joins the FrameSources first: no other
\* thread has been joined while the FrameSources are not yet joined.
C11_FrameSourcesJoinedFirst == MainHasJoinedCoupling => MainHasJoinedCaps

\* the bundles that exist: queued for the workers or held by one
Bundles ==
    {workQ.items[k] : k \in 1..Len(workQ.items)}
        \cup {wElem[w] : w \in {v \in Workers : wPc[v] = "put"}}

FullBundle(frames) ==
    /\ Len(frames) = NumCams
    /\ \A c \in Cams : frames[c] # None

\* C15: no bundle is produced until every slot has been written at least
\* once, and every bundle holds a frame for every camera.
C15_StartupBarrier ==
    /\ (emitted # <<>> \/ cplPc # "barrier") => \A c \in Cams : lastFrame[c] # None
    /\ \A k \in 1..Len(cplFrames) : cplFrames[k] # None
    /\ \A b \in Bundles : FullBundle(b.frames)

C15_Witness ==
    /\ Len(emitted) = MaxBundles
    /\ \E w \in Workers : wPc[w] = "put" /\ FullBundle(wElem[w].frames)

\* a FrameSource publishes a frame in this step
SlotWrite(c) == capPc[c] = "read" /\ capPc'[c] = "top"

\* the Synchronizer has read the first slot of this cycle and not yet the last
MidSnapshot == cplPc = "read" /\ cplI > 1

\* C16: the frames of one bundle are an atomic snapshot: no FrameSource
\* write takes effect between the read of the first slot and the read of
\* the last slot of one Synchronizer cycle.
C16_AtomicSnapshot == [][MidSnapshot => \A c \in Cams : ~SlotWrite(c)]_vars

\* the Reorderer of camera c takes an element in this step
OrderingTakes(c) ==
    ordPc[c] = "run" /\ QHasItem(procQ[c]) /\ procQ'[c] = QPop(procQ[c])

\* the buffer after the step is the buffer u without the keys in gone and
\* with the elements in added
BufferBecomes(c, u, gone, added) ==
    /\ DOMAIN unordered'[c] = (DOMAIN u \ gone) \cup {x.index : x \in added}
    /\ \A x \in added : unordered'[c][x.index] = x
    /\ \A k \in (DOMAIN u \ gone) \ {x.index : x \in added} : unordered'[c][k] = u[k]

\* C18: one Reorderer step. An element whose index is not the expected one
\* is added to the buffer, nothing is emitted and expecting stays. The
\* expected element is emitted, then, in index order, every buffered element
\* that continues the run, each removed from the buffer as it is emitted.
\* After the step expecting is not a key of the buffer and every key of the
\* buffer is larger than expecting.
C18_ReordererStep ==
    [][\A c \in Cams : OrderingTakes(c) =>
         LET elem == QHead(procQ[c])
             e == expecting[c]
             u == unordered[c]
             e2 == expecting'[c]
         IN  /\ IF elem.index # e
                   THEN /\ ordQ'[c] = ordQ[c]
                        /\ e2 = e
                        /\ BufferBecomes(c, u, {}, {elem})
                   ELSE /\ e2 > e
                        /\ \A k \in (e + 1)..(e2 - 1) : k \in DOMAIN u
                        /\ e2 \notin DOMAIN u
                        /\ ordQ'[c].items = ordQ[c].items \o <<elem>>
                              \o [k \in 1..(e2 - e - 1) |-> u[e + k]]
                        /\ BufferBecomes(c, u, (e + 1)..(e2 - 1), {})
             /\ \A k \in DOMAIN unordered'[c] : k > e2
      ]_vars

\* the expected element arrived after its successor and before a later one
C18_Witness ==
    /\ expecting[1] = 2
    /\ Len(ordQ[1].items) = 2
    /\ DOMAIN unordered[1] = {3}
    /\ Len(procQ[1].items) = 1

\* C19: a Reorderer finalizes its output once, when its input is finalized
\* and drained; it puts nothing on its output afterwards, and it is
\* terminated only with its output finalized.
C19_ReordererFinalize ==
    [][\A c \in Cams :
         /\ (~ordQ[c].finalized /\ ordQ'[c].finalized)
               => (QEmptyFinalized(procQ[c]) /\ ordPc[c] = "run" /\ ordPc'[c] = "done")
         /\ ordQ[c].finalized
               => (ordQ'[c].finalized /\ Len(ordQ'[c].items) <= Len(ordQ[c].items))
         /\ ordPc[c] = "done" => ordPc'[c] = "done"
         /\ ordPc'[c] = "done" => ordQ'[c].finalized
      ]_vars

\* a Reorderer has terminated with its last put still in its output queue
C19_Witness ==
    \E c \in Cams : ordPc[c] = "done" /\ ordQ[c].finalized /\ Len(ordQ[c].items) = MaxBundles

WorkerBlocked(w) == wPc[w] = "get" /\ Len(workQ.items) = 0 /\ ~workQ.finalized
OrderingBlocked(c) == ordPc[c] = "run" /\ Len(procQ[c].items) = 0 /\ ~procQ[c].finalized
DisplayBlocked(c) == dispPc[c] = "run" /\ Len(ordQ[c].items) = 0 /\ ~ordQ[c].finalized

\* C20: a worker, a Reorderer and a Sink whose input is empty and not
\* finalized stay where they are, and each of them leaves its loop only
\* when its input is finalized and empty.
C20_EndOfStreamNotEmptiness ==
    [][/\ \A w \in Workers :
            /\ WorkerBlocked(w) => (wPc'[w] = "get" /\ wElem'[w] = wElem[w])
            /\ (wPc[w] # "done" /\ wPc'[w] = "done") => QEmptyFinalized(workQ)
       /\ \A c \in Cams :
            /\ OrderingBlocked(c)
                  => /\ ordPc'[c] = "run"
                     /\ expecting'[c] = expecting[c]
                     /\ unordered'[c] = unordered[c]
                     /\ ~ordQ'[c].finalized
            /\ (ordPc[c] # "done" /\ ordPc'[c] = "done") => QEmptyFinalized(procQ[c])
            /\ DisplayBlocked(c) => (dispPc'[c] = "run" /\ shown'[c] = shown[c])
            /\ (dispPc[c] # "done" /\ dispPc'[c] = "done") => QEmptyFinalized(ordQ[c])
      ]_vars

\* every stage has waited on an empty open input and ended on a finalized one
C20_Witness ==
    /\ \A w \in Workers : wPc[w] = "done"
    /\ \A c \in Cams : ordPc[c] = "done" /\ dispPc[c] = "done"
    /\ \E c \in Cams : Len(shown[c]) = MaxBundles

\* C12 as stated: a Sink that has detected the quit key is terminated.
C12_SinkEndsOnQuit == \A c \in Cams : hist.quitAt[c] > 0 => dispPc[c] = "done"

\* C12: a Sink that detects the quit key raises the shared stop signal and
\* goes on consuming; a Sink terminates only on end-of-stream of its input.
C12_SinkRaisesStop ==
    [][\A c \in Cams :
         /\ hist'.quitAt[c] # hist.quitAt[c] => (stop' /\ dispPc'[c] = "run")
         /\ (dispPc[c] = "run" /\ dispPc'[c] = "done") => QEmptyFinalized(ordQ[c])
      ]_vars

\* a Sink saw the quit key on its first frame, took the rest of the stream
\* and ended on end-of-stream
C12_Witness ==
    \E c \in Cams :
        hist.quitAt[c] = 1 /\ Len(shown[c]) = MaxBundles /\ dispPc[c] = "done"

\* the frame of camera c in the k-th bundle put on the work queue
BundleFrame(k, c) == workQ.items[k].frames[c]

\* two consecutive bundles carry the same frame of camera c
StaleFrame(c) ==
    \E k \in 1..(Len(workQ.items) - 1) : BundleFrame(k, c) = BundleFrame(k + 1, c)

\* a frame camera c published is in no bundle, and a later one is in a bundle
SkippedFrame(c) ==
    \E v \in 1..hist.written[c] :
        /\ \A k \in 1..Len(workQ.items) : BundleFrame(k, c) # v
        /\ \E k \in 1..Len(workQ.items) : BundleFrame(k, c) > v

\* C17: a FrameSource's write replaces the content of its slot whatever it
\* was and is never held back by the Synchronizer: the slot always holds the
\* frame published last, and a FrameSource about to publish can do so in
\* every state. Every frame of a bundle is one its camera published, and the
\* frames of a camera in successive bundles never go back.
C17_OverwriteNeverWaits ==
    /\ \A c \in Cams : lastFrame[c] = hist.written[c]
    /\ \A c \in Cams :
          (capPc[c] = "read" /\ hist.written[c] < MaxFrames) => ENABLED CapReadNumbered(c)
    /\ \A c \in Cams : \A k \in 1..Len(workQ.items) :
          /\ BundleFrame(k, c) \in 1..hist.written[c]
          /\ k > 1 => BundleFrame(k - 1, c) <= BundleFrame(k, c)

\* one camera's frame is repeated in two consecutive bundles, a frame of
\* another camera is skipped, and both loops are running, with no stop
C17_Witness ==
    /\ \E c1, c2 \in Cams : StaleFrame(c1) /\ SkippedFrame(c2)
    /\ cplPc = "top" /\ ~stop
    /\ \A c \in Cams : capPc[c] \in {"top", "read"}

\* C13: in the landmarks list a camera keeps its position, so that the
\* result at position c is camera c's; for every landmark index the views
\* are one per detecting camera, each made of that camera's own landmark, id,
\* projection matrix and intrinsics; the recorded contributing cameras are
\* detecting cameras.
C13_ViewsOfDetectingCameras ==
    bn.pc \in {"triangulate", "draw", "put"} =>
        /\ \A k \in 1..Len(bn.landmarks) : bn.landmarks[k] = k
        /\ bn.lmcs # <<>> =>
              /\ {bn.lmcs[k].cam_idx : k \in 1..Len(bn.lmcs)} = bn.detected
              /\ Len(bn.lmcs) = Cardinality(bn.detected)
              /\ \A k \in 1..Len(bn.lmcs) :
                    /\ bn.lmcs[k].lm.cam = bn.lmcs[k].cam_idx
                    /\ bn.lmcs[k].P = bn.lmcs[k].cam_idx
                    /\ bn.lmcs[k].intrinsic = bn.lmcs[k].cam_idx
        /\ \A k \in 1..Len(bn.chosen_cams) : bn.chosen_cams[k] \subseteq bn.detected

EnoughDetecting(n) == n >= 2

\* C14: a worker triangulates for a bundle exactly when two cameras or more
\* detect a right hand in it; it then produces 21 points, for the landmark
\* indices 0..20 in this order, each with its set of contributing cameras.
\* With fewer detecting cameras the bundle gets no point and no overlay,
\* and this is decided for every bundle on its own.
C14_TriangulateIffTwoDetect ==
    LET enough == EnoughDetecting(Cardinality(bn.detected))
    IN  /\ bn.pc = "triangulate" => (enough /\ bn.lm_id < num_landmarks)
        /\ bn.pc \in {"draw", "put"} =>
              Len(bn.points_3d) = IF enough THEN num_landmarks ELSE 0
        /\ bn.points_3d = [k \in 1..Len(bn.points_3d) |-> k - 1]
        /\ Len(bn.points_3d) = bn.lm_id
        /\ Len(bn.chosen_cams) = Len(bn.points_3d)
        /\ \A k \in 1..Len(bn.chosen_cams) : bn.chosen_cams[k] # {}
        /\ bn.overlay => enough
        /\ bn.pc = "put" => bn.overlay = enough
        /\ \A k \in 1..Len(bn.forwarded) :
              /\ bn.forwarded[k].points =
                    IF EnoughDetecting(bn.forwarded[k].detecting)
                       THEN num_landmarks ELSE 0
              /\ bn.forwarded[k].overlay = EnoughDetecting(bn.forwarded[k].detecting)

\* a bundle with a single detecting camera was forwarded without points and
\* the next bundle was triangulated
C14_Witness ==
    /\ Len(bn.forwarded) = 2
    /\ bn.forwarded[1].detecting = 1 /\ bn.forwarded[1].points = 0
    /\ ~bn.forwarded[1].overlay
    /\ bn.forwarded[2].points = num_landmarks /\ bn.forwarded[2].overlay

\* C21: the Synchronizer is never held back by the work queue or by the
\* workers: whatever the depth of the queue and wherever the workers are,
\* its put, its reads and its check of the stop signal can be taken.
C21_NoBackpressure ==
    /\ cplPc = "put" => ENABLED CouplingPut
    /\ cplPc = "read" => ENABLED CouplingRead
    /\ (cplPc = "top" /\ (stop \/ index < MaxBundles)) => ENABLED CouplingCheckStop

\* no worker has taken anything and every bundle emitted is in the queue
C21_Witness ==
    /\ Len(workQ.items) = MaxBundles
    /\ \A w \in Workers : wPc[w] = "get"
    /\ \A c \in Cams : \A i \in Indices : procPut[c][i] = 0

\* the indices the Reorderer of camera c has taken from its input
Received(c) ==
    {i \in DOMAIN procPut[c] :
        /\ procPut[c][i] > 0
        /\ \A k \in 1..Len(procQ[c].items) : procQ[c].items[k].index # i}

\* C22: the pending buffer of a Reorderer is not limited: it holds every
\* element received that is not yet due, however many there are; none is
\* dropped.
C22_BufferKeepsAll ==
    \A c \in Cams :
        /\ DOMAIN unordered[c] = {i \in Received(c) : i >= expecting[c]}
        /\ \A i \in DOMAIN unordered[c] : unordered[c][i].index = i

\* a worker holds the expected index, has not delivered it, and the buffer
\* holds every later index the Synchronizer emitted
C22_Witness ==
    /\ \E w \in Workers : HeldBy(w, 0) /\ wI[w] = 1
    /\ expecting[1] = 0
    /\ DOMAIN unordered[1] = 1..(MaxBundles - 1)

\* the cameras the views of the last call of triangulate_lmcs stand for
ViewCams == {bn.lmcs[k].cam_idx : k \in 1..Len(bn.lmcs)}

\* C23: every call of triangulate_lmcs gets two views or more, one for each
\* detecting camera.
C23_TriangulationInput ==
    bn.lmcs # <<>> =>
        /\ Len(bn.lmcs) >= 2
        /\ Cardinality(ViewCams) = Len(bn.lmcs)
        /\ ViewCams = bn.detected

\* the Reorderer of camera c is about to finalize its output, or has done so
OrderingAtEnd(c) ==
    \/ ordPc[c] = "run" /\ QEmptyFinalized(procQ[c])
    \/ ordQ[c].finalized

\* C24: when a Reorderer finalizes its output its pending buffer is empty:
\* everything it received has been emitted, nothing is left behind at the
\* end of the stream.
C24_BufferEmptyAtEnd ==
    \A c \in Cams :
        OrderingAtEnd(c) =>
            /\ DOMAIN unordered[c] = {}
            /\ Received(c) = 0..(expecting[c] - 1)
            /\ Len(ordQ[c].items) + Len(shown[c]) = expecting[c]

\* a Reorderer has finalized its output after emitting every bundle, and
\* its Sink has not taken the last one yet
C24_Witness ==
    \E c \in Cams :
        /\ ordQ[c].finalized
        /\ expecting[c] = MaxBundles
        /\ Len(shown[c]) < MaxBundles

\* queue q gets an item in this step
PutOn(q, qNext) == Len(qNext.items) > Len(q.items)

\* queue q is finalized in this step
FinalizeOf(q, qNext) == ~q.finalized /\ qNext.finalized

\* C25: nothing is put on a queue that has been finalized: the work queue is
\* finalized by the Synchronizer once it has left its loop, the Worker-Pool
\* output queues are finalized by main once every worker has terminated, a
\* Reorderer's output is finalized once the Reorderer has left its loop, and
\* none of them gets an item afterwards.
C25_NoPutAfterFinalize ==
    [][/\ workQ.finalized => ~PutOn(workQ, workQ')
       /\ FinalizeOf(workQ, workQ') => (cplPc = "finalize" /\ cplPc' = "done")
       /\ \A c \in Cams :
            /\ procQ[c].finalized => ~PutOn(procQ[c], procQ'[c])
            /\ FinalizeOf(procQ[c], procQ'[c]) => \A w \in Workers : wPc[w] = "done"
            /\ ordQ[c].finalized => ~PutOn(ordQ[c], ordQ'[c])
            /\ FinalizeOf(ordQ[c], ordQ'[c]) => ordPc'[c] = "done"
      ]_vars

\* every queue is finalized and a Sink still has a frame to take
C25_Witness ==
    /\ workQ.finalized
    /\ \A c \in Cams : procQ[c].finalized /\ ordQ[c].finalized
    /\ \E c \in Cams : Len(ordQ[c].items) > 0

C27_StopOnlyBySink ==
    [][/\ stop => stop'
       /\ (~stop /\ stop') =>
             \E c \in Cams :
                /\ hist.quitAt[c] = 0
                /\ hist'.quitAt[c] = Len(shown'[c])
                /\ Len(shown'[c]) = Len(shown[c]) + 1
       /\ (mainPc = "wait" /\ mainPc' # "wait") =>
             \E c \in Cams : hist.quitAt[c] >= 1 /\ Len(shown[c]) >= hist.quitAt[c]
      ]_vars

\* main began the shutdown after the Sink of one camera saw the quit key,
\* while a FrameSource had ended on a failed read before
C27_Witness ==
    /\ mainPc # "wait"
    /\ \E c \in Cams : hist.quitAt[c] >= 1
    /\ \E c \in Cams : hist.quitAt[c] = 0
    /\ \E c \in Cams : capPc[c] = "read_failed"

\* a shot that holds, for every camera, corners found in one and the same
\* iteration of the capture loop
FullShot(shot) ==
    \E it \in 1..MaxIters : \A c \in Cams : shot[c] = it

\* C28: in the calibration script a shot is recorded only on 'c' and only
\* when every camera found the pattern in the current iteration, otherwise
\* the shots stay as they are; the capture loop is left for the calibration
\* only on 's' with at least n shots; 'q' ends the script with the cameras
\* file not written; so a written cameras file rests on at least n shots
\* that each hold corners for every camera.
C28_CalibrationShots ==
    [][/\ cal'.shots # cal.shots =>
             /\ cal.pc = "key" /\ cal'.key = "c"
             /\ \A c \in Cams : cal.corners[c] = cal.iter
             /\ cal'.shots = Append(cal.shots, cal.corners)
       /\ (cal.pc = "key" /\ cal'.key = "c" /\ \E c \in Cams : cal.corners[c] = None)
             => cal'.shots = cal.shots
       /\ (cal.pc # "calibrate" /\ cal'.pc = "calibrate") =>
             (cal.pc = "key" /\ cal'.key = "s" /\ Len(cal.shots) >= cal.needed)
       /\ (cal.pc = "key" /\ cal'.key = "q") => (cal'.pc = "exited" /\ ~cal'.written)
       /\ cal'.pc \in {"calibrate", "saved"} =>
             /\ Len(cal'.shots) >= cal'.needed
             /\ \A k \in 1..Len(cal'.shots) : FullShot(cal'.shots[k])
       /\ cal'.written => cal'.pc = "saved"
      ]_vars

\* the cameras file was written from as many shots as needed, fewer than
\* the iterations of the capture loop, a camera having kept the frame of an
\* earlier iteration and a camera having missed the pattern at the end
C28_Witness ==
    /\ cal.pc = "saved" /\ cal.written
    /\ cal.needed = MaxNeeded /\ Len(cal.shots) = MaxNeeded
    /\ cal.iter = MaxIters
    /\ \E c \in Cams : cal.frame[c] < cal.iter
    /\ \E c \in Cams : cal.corners[c] = None

=============================================================================
